---- MODULE Spec2Model ----
(***************************************************************************)
(* Model of rustyfin: the secant root finder (optimization/root_find.rs),  *)
(* the Black-Scholes pricer (options/black_scholes.rs) and the implied     *)
(* volatility solver (options/volatility.rs).                              *)
(*                                                                         *)
(* An f64 is modelled as a decimal floating-point number of eight          *)
(* significant digits: a record with k = "fin" and the value m * 10^e      *)
(* (m = 0, or 10^7 <= |m| < 10^8), an infinity (k = "inf", m = its sign)   *)
(* or NaN (k = "nan").  Every operation rounds its exact result to eight   *)
(* digits, overflows to an infinity and underflows to zero, and x/0, 0/0,  *)
(* inf-inf, 0*inf and the comparisons with NaN follow IEEE 754.            *)
(***************************************************************************)
EXTENDS Integers, Sequences, FiniteSets, TLC

VARIABLES
    prm,        \* what the residual closure f captures
    x0, x1,     \* secant: the two current iterates (let mut x0, x1)
    xtol, ftol, \* secant: the tolerances
    max_iter,   \* secant: the iteration cap
    i,          \* secant: the loop variable of `for i in 0..max_iter`
    pc,         \* where control is
    res,        \* secant: the returned Result<SecantOk, SecantError>
    nupd,       \* history: how many times the update of line 60 was evaluated
    nshift,     \* history: how many iterations ended in the shift of lines 64-65
    ret         \* implied_volatility / black_scholes: what the call produced

vars == <<prm, x0, x1, xtol, ftol, max_iter, i, pc, res, nupd, nshift, ret>>

(***************************************************************************)
(* f64                                                                     *)
(*                                                                         *)
(* The({e : x \in {a}}) is e with x naming the value of a: an operand is   *)
(* evaluated once, as a Rust expression evaluates its operands.            *)
(***************************************************************************)
\* the largest decimal exponent of a finite value
MaxExp == 30

\* the mantissa bounds: 10^7 <= |m| < 10^8
MinMant == 10000000
MantLimit == 100000000

The(S) == CHOOSE e \in S : TRUE

NaN == [k |-> "nan", m |-> 0, e |-> 0]
Inf(sg) == [k |-> "inf", m |-> sg, e |-> 0]
Zero == [k |-> "fin", m |-> 0, e |-> 0]

AbsI(n) == IF n < 0 THEN -n ELSE n
Sgn(n) == IF n > 0 THEN 1 ELSE IF n < 0 THEN -1 ELSE 0

Pow10(n) ==
    <<1, 10, 100, 1000, 10000, 100000, 1000000, 10000000, 100000000,
      1000000000>>[n + 1]

\* the number of decimal digits of a >= 1
NDigits(a) ==
    IF a < 10000
    THEN (IF a < 100 THEN (IF a < 10 THEN 1 ELSE 2)
          ELSE (IF a < 1000 THEN 3 ELSE 4))
    ELSE IF a < 100000000
    THEN (IF a < 1000000 THEN (IF a < 100000 THEN 5 ELSE 6)
          ELSE (IF a < 10000000 THEN 7 ELSE 8))
    ELSE (IF a < 1000000000 THEN 9 ELSE 10)

\* a / b for a >= 0, b > 0, rounded to nearest, ties to even
RoundDivPos(a, b) ==
    IF 2 * (a % b) > b THEN (a \div b) + 1
    ELSE IF 2 * (a % b) = b THEN (a \div b) + ((a \div b) % 2)
    ELSE a \div b

RoundDiv(a, b) == Sgn(a) * Sgn(b) * RoundDivPos(AbsI(a), AbsI(b))

\* a normalised mantissa and its exponent as an f64: overflow gives an
\* infinity, underflow gives zero
Pack(m, e) ==
    IF e + 8 > MaxExp THEN Inf(Sgn(m))
    ELSE IF e + 8 < -MaxExp THEN Zero
    ELSE [k |-> "fin", m |-> m, e |-> e]

\* a mantissa rounded to eight digits may have become 10^8
Carry(q, e) ==
    IF AbsI(q) = MantLimit THEN Pack(Sgn(q) * MinMant, e + 1) ELSE Pack(q, e)

\* the f64 nearest to m * 10^e, for any integer m
Num(m_, e_) ==
    The({IF m = 0 THEN Zero
         ELSE IF d > 8 THEN Carry(RoundDiv(m, Pow10(d - 8)), e + d - 8)
         ELSE Pack(m * Pow10(8 - d), e + d - 8)
         : m \in {m_}, e \in {e_}, d \in {NDigits(AbsI(m_))}})

\* an integer as an f64
Fin(n) == Num(n, 0)

FNeg(a) == IF a.k = "nan" THEN NaN ELSE [k |-> a.k, m |-> -a.m, e |-> a.e]

\* hi + lo for finite non-zero operands with hi.e >= lo.e, with a guard digit
AddAligned(hi, lo) ==
    IF hi.e - lo.e > 9 THEN hi
    ELSE Num(hi.m * 10 + RoundDiv(lo.m * 10, Pow10(hi.e - lo.e)), hi.e - 1)

FAdd(a_, b_) ==
    The({IF a.k = "nan" \/ b.k = "nan" THEN NaN
         ELSE IF a.k = "inf" THEN (IF b.k = "inf" /\ b.m # a.m THEN NaN ELSE a)
         ELSE IF b.k = "inf" THEN b
         ELSE IF a.m = 0 THEN b
         ELSE IF b.m = 0 THEN a
         ELSE IF a.e >= b.e THEN AddAligned(a, b)
         ELSE AddAligned(b, a) : a \in {a_}, b \in {b_}})

FSub(a_, b_) ==
    The({IF a.k = "nan" \/ b.k = "nan" THEN NaN
         ELSE IF a.k = "inf" THEN (IF b.k = "inf" /\ b.m = a.m THEN NaN ELSE a)
         ELSE IF b.k = "inf" THEN FNeg(b)
         ELSE IF a.m = 0 THEN FNeg(b)
         ELSE IF b.m = 0 THEN a
         ELSE IF a.e >= b.e THEN AddAligned(a, FNeg(b))
         ELSE AddAligned(FNeg(b), a) : a \in {a_}, b \in {b_}})

\* the leading digits of a * b for mantissas a, b, split in halves of four
\* digits: a * b / 10^7
MulMant(a, b) ==
    (a \div 10000) * (b \div 10000) * 10
      + RoundDivPos((a \div 10000) * (b % 10000) + (a % 10000) * (b \div 10000)
                      + (((a % 10000) * (b % 10000)) \div 10000), 1000)

FMul(a_, b_) ==
    The({IF a.k = "nan" \/ b.k = "nan" THEN NaN
         ELSE IF a.k = "inf" \/ b.k = "inf"
              THEN (IF a.m = 0 \/ b.m = 0 THEN NaN ELSE Inf(Sgn(a.m) * Sgn(b.m)))
         ELSE IF a.m = 0 \/ b.m = 0 THEN Zero
         ELSE Num(Sgn(a.m) * Sgn(b.m) * MulMant(AbsI(a.m), AbsI(b.m)),
                  a.e + b.e + 7) : a \in {a_}, b \in {b_}})

\* round(r * 10^n / b) for 0 <= r < b < 10^8, by long division
RECURSIVE DivDigits(_, _, _)
DivDigits(r_, b, n) ==
    The({IF n = 0 THEN (IF 2 * r >= b THEN 1 ELSE 0)
         ELSE ((r * 10) \div b) * Pow10(n - 1) + DivDigits((r * 10) % b, b, n - 1)
         : r \in {r_}})

\* a * 10^8 / b for mantissas a, b
DivMant(a, b) == (a \div b) * MantLimit + DivDigits(a % b, b, 8)

FDiv(a_, b_) ==
    The({IF a.k = "nan" \/ b.k = "nan" THEN NaN
         ELSE IF a.k = "inf"
              THEN (IF b.k = "inf" THEN NaN ELSE Inf(IF b.m < 0 THEN -a.m ELSE a.m))
         ELSE IF b.k = "inf" THEN Zero
         ELSE IF b.m = 0 THEN (IF a.m = 0 THEN NaN ELSE Inf(Sgn(a.m)))
         ELSE IF a.m = 0 THEN Zero
         ELSE Num(Sgn(a.m) * Sgn(b.m) * DivMant(AbsI(a.m), AbsI(b.m)),
                  a.e - b.e - 8) : a \in {a_}, b \in {b_}})

FAbs(a) == IF a.k = "nan" THEN NaN ELSE [k |-> a.k, m |-> AbsI(a.m), e |-> a.e]

\* the order of two values that are not NaN: -1, 0 or 1
Cmp(a, b) ==
    IF Sgn(a.m) # Sgn(b.m) THEN Sgn(Sgn(a.m) - Sgn(b.m))
    ELSE IF a.m = 0 THEN 0
    ELSE IF a.k = "inf" THEN (IF b.k = "inf" THEN 0 ELSE Sgn(a.m))
    ELSE IF b.k = "inf" THEN -Sgn(a.m)
    ELSE IF a.e # b.e THEN Sgn(a.m) * Sgn(a.e - b.e)
    ELSE Sgn(a.m - b.m)

FLt(a_, b_) ==
    The({a.k # "nan" /\ b.k # "nan" /\ Cmp(a, b) < 0 : a \in {a_}, b \in {b_}})

FLe(a_, b_) ==
    The({a.k # "nan" /\ b.k # "nan" /\ Cmp(a, b) <= 0 : a \in {a_}, b \in {b_}})

\* f64::max: a NaN operand is ignored
FMax(a_, b_) ==
    The({IF a.k = "nan" THEN b
         ELSE IF b.k = "nan" THEN a
         ELSE IF Cmp(a, b) < 0 THEN b ELSE a : a \in {a_}, b \in {b_}})

Half == Num(5, -1)
One == Num(1, 0)
Two == Num(2, 0)
Ln2 == Num(69314718, -8)
Ln10 == Num(23025851, -7)

\* sqrt by Newton's iteration x <- (x + t/x) / 2
RECURSIVE SqrtIter(_, _, _)
SqrtIter(t, x_, n) ==
    The({IF n = 0 THEN x
         ELSE SqrtIter(t, FMul(Half, FAdd(x, FDiv(t, x))), n - 1) : x \in {x_}})

\* a first guess within a factor 1.8 of the square root of m * 10^e
SqrtGuess(e) ==
    IF (e + 8) % 2 = 0 THEN Num(6, ((e + 8) \div 2) - 1)
    ELSE Num(18, ((e + 8) \div 2) - 1)

\* f64::sqrt
FSqrt(a_) ==
    The({IF a.k = "nan" THEN NaN
         ELSE IF a.k = "inf" THEN (IF a.m > 0 THEN a ELSE NaN)
         ELSE IF a.m < 0 THEN NaN
         ELSE IF a.m = 0 THEN Zero
         ELSE SqrtIter(a, SqrtGuess(a.e), 6) : a \in {a_}})

\* atanh(z) / z = 1 + w/3 + w^2/5 + w^3/7 + w^4/9 + w^5/11 for w = z^2 <= 0.04
AtanhSeries(w_) ==
    The({FAdd(FAdd(One, FMul(Num(33333333, -8), w)),
              FMul(w2, FAdd(FAdd(Num(2, -1), FMul(Num(14285714, -8), w)),
                            FMul(w2, FAdd(Num(11111111, -8),
                                          FMul(Num(90909091, -9), w))))))
         : w \in {w_}, w2 \in {FMul(w_, w_)}})

\* ln v for 0.75 <= v <= 1.5: 2 atanh((v - 1)/(v + 1))
LnNear1(v) ==
    The({FMul(FMul(Two, z), AtanhSeries(FMul(z, z)))
         : z \in {FDiv(FSub(v, One), FAdd(v, One))}})

\* how often the mantissa m, read as a number in [1, 10), is halved to get
\* below 1.5
Halvings(m) ==
    IF m > 60000000 THEN 3 ELSE IF m > 30000000 THEN 2
    ELSE IF m > 15000000 THEN 1 ELSE 0

\* f64::ln: ln(m * 10^e) = ln(u / 2^h) + h ln 2 + (e + 7) ln 10, u = m / 10^7
FLn(a_) ==
    The({IF a.k = "nan" THEN NaN
         ELSE IF a.k = "inf" THEN (IF a.m > 0 THEN a ELSE NaN)
         ELSE IF a.m < 0 THEN NaN
         ELSE IF a.m = 0 THEN Inf(-1)
         ELSE FAdd(FAdd(LnNear1(FMul([k |-> "fin", m |-> a.m, e |-> -7],
                                     <<One, Half, Num(25, -2), Num(125, -3)>>
                                         [Halvings(a.m) + 1])),
                        FMul(Fin(Halvings(a.m)), Ln2)),
                   FMul(Fin(a.e + 7), Ln10)) : a \in {a_}})

\* round(a / ln 10) for a finite a with |a| <= 100
Decades(a) ==
    IF a.m = 0 \/ -a.e - 4 > 9 THEN 0
    ELSE RoundDiv(RoundDiv(a.m, Pow10(-a.e - 4)), 23026)

\* exp y = 1 + y + y^2/2 + y^3/6 + y^4/24 + y^5/120 for |y| <= 0.08
ExpSeries(y_) ==
    The({FAdd(FAdd(One, y),
              FMul(y2, FAdd(FAdd(Half, FMul(Num(16666667, -8), y)),
                            FMul(y2, FAdd(Num(41666667, -9),
                                          FMul(Num(83333333, -10), y))))))
         : y \in {y_}, y2 \in {FMul(y_, y_)}})

Sq(a_) == The({FMul(a, a) : a \in {a_}})

\* a * 10^n
Scale10(a_, n) ==
    The({IF a.k # "fin" \/ a.m = 0 THEN a ELSE Pack(a.m, a.e + n) : a \in {a_}})

\* f64::exp: exp a = 10^n exp(r) with r = a - n ln 10, and exp r = exp(r/16)^16
FExp(a_) ==
    The({IF a.k = "nan" THEN NaN
         ELSE IF a.k = "inf" THEN (IF a.m > 0 THEN a ELSE Zero)
         ELSE IF FLt(Num(100, 0), a) THEN Inf(1)
         ELSE IF FLt(a, Num(-100, 0)) THEN Zero
         ELSE Scale10(Sq(Sq(Sq(Sq(ExpSeries(
                  FMul(FSub(a, FMul(Fin(Decades(a)), Ln10)), Num(625, -4))))))),
                  Decades(a)) : a \in {a_}})

\* 1 - cdf(x) for x >= 0, by Abramowitz and Stegun 26.2.17 (error < 1e-7)
UpperTail(x) ==
    The({FMul(FMul(Num(39894228, -8), FExp(FNeg(FMul(Half, FMul(x, x))))),
              FMul(u, FAdd(Num(31938153, -8),
                FMul(u, FAdd(Num(-356563782, -9),
                  FMul(u, FAdd(Num(1781477937, -9),
                    FMul(u, FAdd(Num(-1821255978, -9),
                      FMul(u, Num(1330274429, -9)))))))))))
         : u \in {FDiv(One, FAdd(One, FMul(Num(2316419, -7), x)))}})

\* Normal::new(0.0, 1.0).cdf
FNormCdf(a) ==
    IF a.k = "nan" THEN NaN
    ELSE IF a.k = "inf" THEN (IF a.m > 0 THEN One ELSE Zero)
    ELSE IF a.m < 0 THEN UpperTail(FNeg(a))
    ELSE FSub(One, UpperTail(a))

(***************************************************************************)
(* Bounds of the model                                                     *)
(***************************************************************************)
MaxCoef == 2
MaxX == 2
MaxTol == 1
MaxIter == 3
MaxOff == 2
MaxSpot == 2

(***************************************************************************)
(* black_scholes                                                           *)
(***************************************************************************)
d1_f(s, k, t, r, sigma) ==
    FDiv(FAdd(FLn(FDiv(s, k)),
              FMul(FAdd(r, FMul(FMul(Half, sigma), sigma)), t)),
         FMul(sigma, FSqrt(t)))

d2_f(s, k, t, r, sigma) == FSub(d1_f(s, k, t, r, sigma), FMul(sigma, FSqrt(t)))

\* the guard tested with < instead of <=
IntrinsicCase_Strict(t, sigma) == FLt(t, Zero) \/ FLt(sigma, Zero)

\* if t <= 0.0 || sigma <= 0.0
IntrinsicCase(t, sigma) == FLe(t, Zero) \/ FLe(sigma, Zero)

\* the pair (call, put)
black_scholes(s, k, t, r, sigma) ==
    IF IntrinsicCase(t, sigma)
    THEN <<FMax(FSub(s, k), Zero), FMax(FSub(k, s), Zero)>>
    ELSE The({<<FSub(FMul(s, FNormCdf(d1)), FMul(FMul(k, df), FNormCdf(d2))),
                FSub(FMul(FMul(k, df), FNormCdf(FNeg(d2))),
                     FMul(s, FNormCdf(FNeg(d1))))>>
              : d1 \in {d1_f(s, k, t, r, sigma)},
                d2 \in {d2_f(s, k, t, r, sigma)},
                df \in {FExp(FMul(FNeg(r), t))}})

(***************************************************************************)
(* The residual function handed to secant                                  *)
(***************************************************************************)
\* a polynomial residual such as the test's |x| x * x - 4.0
Poly(a, b, c, x) == FAdd(FAdd(FMul(Fin(a), FMul(x, x)), FMul(Fin(b), x)), Fin(c))

\* the closure of the is_call branch: call_price - p
CallResidual(p, sigma) == FSub(black_scholes(p.s, p.k, p.t, p.r, sigma)[1], p.p)

\* the closure of the else branch: put_price - p
PutResidual(p, sigma) == FSub(black_scholes(p.s, p.k, p.t, p.r, sigma)[2], p.p)

\* the solver reading the call price whatever is_call says
IVResidual_CallOnly(p, sigma) == CallResidual(p, sigma)

\* the closure implied_volatility hands to secant
IVResidual(p, sigma) ==
    IF p.is_call THEN CallResidual(p, sigma) ELSE PutResidual(p, sigma)

Residual(p, x) ==
    IF p.kind = "poly" THEN Poly(p.a, p.b, p.c, x)
    ELSE IF p.kind = "call" THEN CallResidual(p, x)
    ELSE IF p.kind = "put" THEN PutResidual(p, x)
    ELSE IVResidual(p, x)

(***************************************************************************)
(* secant                                                                  *)
(***************************************************************************)
NoResult ==
    [tag |-> "none", root |-> NaN, iterations |-> 0,
     convergence_type |-> "none", error |-> "none"]

SecantOk(root, iterations, convergence_type) ==
    [tag |-> "Ok", root |-> root, iterations |-> iterations,
     convergence_type |-> convergence_type, error |-> "none"]

SecantErr(error) ==
    [tag |-> "Err", root |-> NaN, iterations |-> 0,
     convergence_type |-> "none", error |-> error]

\* the loop running one iteration too many
InLoop_OffByOne(n, maxIter) == n <= maxIter

\* for i in 0..max_iter
InLoop(n, maxIter) == n < maxIter

\* f1.abs() < ftol
FTolReached(f1, tol) == FLt(FAbs(f1), tol)

\* (f1 - f0).abs() < ftol
Stagnated(f0, f1, tol) == FLt(FAbs(FSub(f1, f0)), tol)

\* let x2 = x1 - f1 * (x1 - x0) / (f1 - f0)
SecantUpdate(a0, a1, f0, f1) ==
    FSub(a1, FDiv(FMul(f1, FSub(a1, a0)), FSub(f1, f0)))

\* (x2 - x1).abs() < xtol
XTolReached(a1, a2, tol) == FLt(FAbs(FSub(a2, a1)), tol)

F0 == Residual(prm, x0)
F1 == Residual(prm, x1)

ReturnFTol(f1) ==
    /\ FTolReached(f1, ftol)
    /\ res' = SecantOk(x1, i, "FTolerance")
    /\ pc' = "returned"
    /\ UNCHANGED <<prm, x0, x1, xtol, ftol, max_iter, i, nupd, nshift, ret>>

ReturnDivisionByZero(f0, f1) ==
    /\ ~FTolReached(f1, ftol)
    /\ Stagnated(f0, f1, ftol)
    /\ res' = SecantErr("DivisionByZero")
    /\ pc' = "returned"
    /\ UNCHANGED <<prm, x0, x1, xtol, ftol, max_iter, i, nupd, nshift, ret>>

ReturnXTol(x2) ==
    /\ XTolReached(x1, x2, xtol)
    /\ res' = SecantOk(x2, i, "XTolerance")
    /\ pc' = "returned"
    /\ nupd' = nupd + 1
    /\ UNCHANGED <<prm, x0, x1, xtol, ftol, max_iter, i, nshift, ret>>

Shift(x2) ==
    /\ ~XTolReached(x1, x2, xtol)
    /\ x0' = x1
    /\ x1' = x2
    /\ i' = i + 1
    /\ nupd' = nupd + 1
    /\ nshift' = nshift + 1
    /\ UNCHANGED <<prm, xtol, ftol, max_iter, pc, res, ret>>

\* one iteration of the loop body, f0 and f1 evaluated once
Iterate ==
    /\ pc = "loop"
    /\ InLoop(i, max_iter)
    /\ \E f0 \in {Residual(prm, x0)}, f1 \in {Residual(prm, x1)} :
          \/ ReturnFTol(f1)
          \/ ReturnDivisionByZero(f0, f1)
          \/ /\ ~FTolReached(f1, ftol)
             /\ ~Stagnated(f0, f1, ftol)
             /\ \E x2 \in {SecantUpdate(x0, x1, f0, f1)} :
                   ReturnXTol(x2) \/ Shift(x2)

ReturnMaxIterations ==
    /\ pc = "loop"
    /\ ~InLoop(i, max_iter)
    /\ res' = SecantErr("MaxIterationsExceeded")
    /\ pc' = "returned"
    /\ UNCHANGED <<prm, x0, x1, xtol, ftol, max_iter, i, nupd, nshift, ret>>

SecantStep == Iterate \/ ReturnMaxIterations

(***************************************************************************)
(* implied_volatility                                                      *)
(***************************************************************************)
\* secant(f, 0.1, 0.3, 1e-6, 1e-6, 50)
X0Default == Num(1, -1)
X1Default == Num(3, -1)
XTolDefault == Num(1, -6)
FTolDefault == Num(1, -6)
MaxIterDefault == 50

NoReturn == [tag |-> "none", value |-> NaN]

\* unwrap_or: a failed solve yielding a number all the same
Expect_Lenient(r) == [tag |-> "value", value |-> r.root]

\* .expect("Implied volatility calculation failed").root
Expect(r) ==
    IF r.tag = "Ok"
    THEN [tag |-> "value", value |-> r.root]
    ELSE [tag |-> "panic", value |-> NaN]

ExpectRoot ==
    /\ pc = "returned"
    /\ ret' = Expect(res)
    /\ pc' = "done"
    /\ UNCHANGED <<prm, x0, x1, xtol, ftol, max_iter, i, res, nupd, nshift>>

\* black_scholes called on its own
Price ==
    /\ pc = "price"
    /\ \E v \in {black_scholes(prm.s, prm.k, prm.t, prm.r, prm.sigma)} :
          ret' = [tag |-> "prices", call |-> v[1], put |-> v[2]]
    /\ pc' = "priced"
    /\ UNCHANGED <<prm, x0, x1, xtol, ftol, max_iter, i, res, nupd, nshift>>

(***************************************************************************)
(* Spec: secant called on a polynomial residual                            *)
(***************************************************************************)
Init ==
    /\ prm \in [kind : {"poly"}, a : 0..1, b : -1..1, c : -MaxCoef..MaxCoef]
    /\ x0 \in {Fin(n) : n \in -MaxX..MaxX}
    /\ x1 \in {Fin(n) : n \in -MaxX..MaxX}
    /\ xtol \in {Fin(n) : n \in 0..MaxTol}
    /\ ftol \in {Fin(n) : n \in 0..MaxTol}
    /\ max_iter \in 0..MaxIter
    /\ i = 0
    /\ pc = "loop"
    /\ res = NoResult
    /\ nupd = 0
    /\ nshift = 0
    /\ ret = NoReturn

Next == SecantStep

Spec == Init /\ [][Next]_vars

(***************************************************************************)
(* SpecBS: black_scholes called on its own                                 *)
(***************************************************************************)
\* times to maturity: expired, expiring, one year
TimeVals == {Fin(-1), Zero, One}
\* rates: 0 and 5%
RateVals == {Zero, Num(5, -2)}
\* volatilities: 5%, 20%, 100%
SigmaVals == {Num(5, -2), Num(2, -1), One}

InitBS ==
    /\ prm \in [kind : {"bs"},
                s : {Fin(n) : n \in 0..MaxSpot},
                k : {Fin(n) : n \in 0..MaxSpot},
                t : TimeVals,
                r : RateVals,
                sigma : SigmaVals \cup {Num(-2, -1), Zero}]
    /\ x0 = NaN
    /\ x1 = NaN
    /\ xtol = NaN
    /\ ftol = NaN
    /\ max_iter = 0
    /\ i = 0
    /\ pc = "price"
    /\ res = NoResult
    /\ nupd = 0
    /\ nshift = 0
    /\ ret = NoReturn

NextBS == Price

SpecBS == InitBS /\ [][NextBS]_vars

(***************************************************************************)
(* SpecIV: implied_volatility called on a quoted price                     *)
(***************************************************************************)
\* spot and strike pairs: at the money, and out of / in the money by a half
Markets == {<<Fin(100), Fin(100)>>, <<One, One>>, <<One, Two>>, <<Two, One>>}

\* the price with no time value: the pricer at sigma = 0
Intrinsic(s, k, t, r, is_call) ==
    black_scholes(s, k, t, r, Zero)[IF is_call THEN 1 ELSE 2]

\* the prices the solver is asked to invert: the intrinsic value plus a few
\* millionths, not a number, or the pricer's own price at a volatility sigma
\* (a round trip)
Quotes(s, k, t, r, is_call) ==
    {[p |-> FAdd(Intrinsic(s, k, t, r, is_call), Num(d, -6)), sigma |-> NaN] :
        d \in -MaxOff..MaxOff}
    \cup {[p |-> NaN, sigma |-> NaN]}
    \cup {[p |-> black_scholes(s, k, t, r, v)[IF is_call THEN 1 ELSE 2],
           sigma |-> v] : v \in SigmaVals}

InitIV ==
    /\ \E sk \in Markets, t \in TimeVals, r \in RateVals, is_call \in BOOLEAN :
          \E q \in Quotes(sk[1], sk[2], t, r, is_call) :
              prm = [kind |-> "iv", p |-> q.p, s |-> sk[1], k |-> sk[2],
                     t |-> t, r |-> r, is_call |-> is_call, sigma |-> q.sigma]
    /\ x0 = X0Default
    /\ x1 = X1Default
    /\ xtol = XTolDefault
    /\ ftol = FTolDefault
    /\ max_iter = MaxIterDefault
    /\ i = 0
    /\ pc = "loop"
    /\ res = NoResult
    /\ nupd = 0
    /\ nshift = 0
    /\ ret = NoReturn

NextIV == SecantStep \/ ExpectRoot

SpecIV == InitIV /\ [][NextIV]_vars

(***************************************************************************)
(* Properties of secant                                                   *)
(***************************************************************************)
\* an iteration of the loop is reached
IterationReached == pc = "loop" /\ i < max_iter

\* C1: in every reached iteration with |f1| <= ftol (the boundary |f1| = ftol
\* included) secant returns Ok with root = x1, FTolerance and iterations = i,
\* and does not compute the secant update.
C1_FTolInclusive ==
    [][(IterationReached /\ FLe(FAbs(F1), ftol)) =>
        (/\ pc' = "returned"
         /\ res' = SecantOk(x1, i, "FTolerance")
         /\ nupd' = nupd)]_vars

\* C2: in every reached iteration with |f1| > ftol and |f1 - f0| <= ftol (the
\* boundary included, so also f1 = f0 with ftol = 0) secant returns
\* Err(DivisionByZero) and does not evaluate the update with that denominator.
C2_StagnationInclusive ==
    [][(/\ IterationReached
        /\ FLt(ftol, FAbs(F1))
        /\ FLe(FAbs(FSub(F1, F0)), ftol)) =>
        (/\ pc' = "returned"
         /\ res' = SecantErr("DivisionByZero")
         /\ nupd' = nupd)]_vars

\* C3: the checks apply in the order f-tolerance, slope degeneracy,
\* x-tolerance: when |f1| <= ftol and |f1 - f0| <= ftol both hold the outcome
\* is Ok(x1, FTolerance), never DivisionByZero; when |f1 - f0| <= ftol holds
\* and |f1| <= ftol does not, the outcome is DivisionByZero, never an
\* XTolerance success.
C3_CheckOrder ==
    [][IterationReached =>
        /\ (FLe(FAbs(F1), ftol) /\ FLe(FAbs(FSub(F1, F0)), ftol)) =>
              (res' = SecantOk(x1, i, "FTolerance") /\ res'.error # "DivisionByZero")
        /\ (~FLe(FAbs(F1), ftol) /\ FLe(FAbs(FSub(F1, F0)), ftol)) =>
              (res' = SecantErr("DivisionByZero") /\ res'.convergence_type # "XTolerance")
      ]_vars

\* C4: in every reached iteration that gets past the f-tolerance and the
\* degeneracy check, with x2 = x1 - f1*(x1 - x0)/(f1 - f0): if |x2 - x1| <= xtol
\* (the boundary included) secant returns Ok with root = x2, XTolerance and
\* iterations = i; otherwise the next iteration starts with x0 = the old x1
\* and x1 = x2.
C4_XTolInclusive ==
    [][(IterationReached /\ nupd' = nupd + 1) =>
        LET x2 == FSub(x1, FDiv(FMul(F1, FSub(x1, x0)), FSub(F1, F0)))
        IN  IF FLe(FAbs(FSub(x2, x1)), xtol)
            THEN pc' = "returned" /\ res' = SecantOk(x2, i, "XTolerance")
            ELSE pc' = "loop" /\ i' = i + 1 /\ x0' = x1 /\ x1' = x2
      ]_vars

\* C5: secant performs at most max_iter iterations (every step of the loop
\* either returns or advances i, and i never exceeds max_iter); it
\* returns MaxIterationsExceeded exactly when all max_iter iterations ended in
\* the shift (none returned by f-tolerance, stagnation or x-tolerance), and
\* every Ok result reports iterations < max_iter.
C5_BoundedIterations ==
    /\ [](/\ i <= max_iter
          /\ nshift = i
          /\ nupd <= max_iter
          /\ pc = "loop" => res = NoResult
          /\ pc = "returned" =>
                /\ res.tag \in {"Ok", "Err"}
                /\ (res = SecantErr("MaxIterationsExceeded")) <=> (nshift = max_iter)
                /\ res.tag = "Ok" => (res.iterations = i /\ res.iterations < max_iter)
                /\ res.error = "DivisionByZero" => nshift < max_iter)
    /\ [][pc = "loop" => (pc' = "returned" \/ (pc' = "loop" /\ i' = i + 1))]_vars

\* C5 witness: a call that used up a cap of at least two iterations
C5_Witness ==
    /\ pc = "returned"
    /\ res = SecantErr("MaxIterationsExceeded")
    /\ max_iter >= 2
    /\ nshift = max_iter

(***************************************************************************)
(* Properties of black_scholes                                            *)
(***************************************************************************)
\* C6: whenever time <= 0 or sigma <= 0, black_scholes returns exactly
\* (max(spot - strike, 0), max(strike - spot, 0)): the same pair at every
\* rate, both components >= 0, and at most one of them non-zero.
C6_IntrinsicEdge ==
    (pc = "priced" /\ (FLe(prm.t, Zero) \/ FLe(prm.sigma, Zero))) =>
        /\ ret.call = FMax(FSub(prm.s, prm.k), Zero)
        /\ ret.put = FMax(FSub(prm.k, prm.s), Zero)
        /\ \A r \in RateVals :
              black_scholes(prm.s, prm.k, prm.t, r, prm.sigma) = <<ret.call, ret.put>>
        /\ FLe(Zero, ret.call)
        /\ FLe(Zero, ret.put)
        /\ (ret.call = Zero \/ ret.put = Zero)

\* C6 witness: an option priced at expiry, in the money, at a non-zero rate
\* and a positive volatility
C6_Witness ==
    /\ pc = "priced"
    /\ prm.t = Zero
    /\ FLt(Zero, prm.sigma)
    /\ FLt(Zero, prm.r)
    /\ FLt(prm.k, prm.s)
    /\ ret.call = FSub(prm.s, prm.k)
    /\ ret.put = Zero

(***************************************************************************)
(* Properties of implied_volatility                                       *)
(***************************************************************************)
\* the component of the pricer's pair that matches the option type, minus the
\* observed price
MatchingResidual(sigma) ==
    FSub(black_scholes(prm.s, prm.k, prm.t, prm.r, sigma)[IF prm.is_call THEN 1 ELSE 2],
         prm.p)

\* C7: implied_volatility returns the root of
\* secant(residual, 0.1, 0.3, 1e-6, 1e-6, 50), residual(sigma) being the
\* matching component of black_scholes(s, k, t, r, sigma) minus p: the solve
\* starts from these arguments and keeps them, every iteration is the secant
\* iteration on that residual, and a successful solve returns its root.
C7_SecantOnMatchingPrice ==
    /\ x0 = Num(1, -1) /\ x1 = Num(3, -1) /\ i = 0
    /\ [](xtol = Num(1, -6) /\ ftol = Num(1, -6) /\ max_iter = 50)
    /\ [][(pc = "loop" /\ i < max_iter) =>
            \E f0 \in {MatchingResidual(x0)}, f1 \in {MatchingResidual(x1)} :
               IF FLt(FAbs(f1), ftol)
               THEN pc' = "returned" /\ res' = SecantOk(x1, i, "FTolerance")
               ELSE IF FLt(FAbs(FSub(f1, f0)), ftol)
               THEN pc' = "returned" /\ res' = SecantErr("DivisionByZero")
               ELSE \E x2 \in {FSub(x1, FDiv(FMul(f1, FSub(x1, x0)), FSub(f1, f0)))} :
                      IF FLt(FAbs(FSub(x2, x1)), xtol)
                      THEN pc' = "returned" /\ res' = SecantOk(x2, i, "XTolerance")
                      ELSE pc' = "loop" /\ x0' = x1 /\ x1' = x2 /\ i' = i + 1
         ]_vars
    /\ []((pc = "done" /\ res.tag = "Ok") => ret = [tag |-> "value", value |-> res.root])

\* C7 witness: a put whose solve succeeded after at least two secant updates
C7_Witness ==
    /\ pc = "done"
    /\ ~prm.is_call
    /\ FLt(Zero, prm.t)
    /\ nshift >= 2
    /\ res.tag = "Ok"
    /\ ret.tag = "value"

\* C8: secant hands both failure kinds back as error values (control returns
\* to the caller with an Err result), and implied_volatility panics exactly
\* when its secant call returned an error, of either kind; a volatility is
\* returned only after a success, and it is the root.
C8_ErrorsReturnedThenPanic ==
    /\ pc = "returned" =>
          /\ res.tag \in {"Ok", "Err"}
          /\ res.tag = "Err" => res.error \in {"MaxIterationsExceeded", "DivisionByZero"}
          /\ ret = NoReturn
    /\ pc = "done" =>
          /\ ret.tag \in {"value", "panic"}
          /\ (ret.tag = "panic") <=> (res.tag = "Err")
          /\ ret.tag = "value" => (res.tag = "Ok" /\ ret.value = res.root)

\* C8 witness: a solve that used up its fifty iterations, then the panic
C8_Witness ==
    /\ pc = "done"
    /\ res = SecantErr("MaxIterationsExceeded")
    /\ nshift = 50
    /\ ret.tag = "panic"

\* C9: pricing at a volatility sigma in [0.05, 1.0] with spot > 0, strike > 0
\* and time > 0, then solving for the volatility of that price (call price
\* with is_call, put price without), does not fail and returns a value within
\* 1e-4 of sigma.
C9_RoundTrip ==
    (/\ pc = "done"
     /\ prm.sigma.k = "fin"
     /\ FLe(Num(5, -2), prm.sigma) /\ FLe(prm.sigma, One)
     /\ FLt(Zero, prm.s) /\ FLt(Zero, prm.k) /\ FLt(Zero, prm.t)) =>
        /\ ret.tag = "value"
        /\ FLe(FAbs(FSub(ret.value, prm.sigma)), Num(1, -4))

\* C10: with time <= 0 and a finite price the solve ends in iteration 0
\* without a secant update: it returns 0.3 when the price is within 1e-6 of
\* the intrinsic value (|intrinsic - price| <= 1e-6), and otherwise secant
\* reports DivisionByZero and implied_volatility panics; and in any solve an
\* iteration with both iterates <= 0 and |f1| > ftol ends in DivisionByZero.
C10_ExpiredOption ==
    /\ []((pc = "done" /\ FLe(prm.t, Zero) /\ prm.p.k = "fin") =>
            /\ i = 0
            /\ nupd = 0
            /\ IF FLe(FAbs(FSub(Intrinsic(prm.s, prm.k, prm.t, prm.r, prm.is_call),
                                prm.p)), Num(1, -6))
               THEN res.tag = "Ok" /\ ret = [tag |-> "value", value |-> Num(3, -1)]
               ELSE res = SecantErr("DivisionByZero") /\ ret.tag = "panic")
    /\ [][(/\ pc = "loop" /\ i < max_iter
           /\ FLe(x0, Zero) /\ FLe(x1, Zero)
           /\ FLt(ftol, FAbs(F1))) =>
            (pc' = "returned" /\ res' = SecantErr("DivisionByZero"))]_vars

====
